---- MODULE Spec2Model ----
(***************************************************************************)
(* The bare function interface generator of the runtime-interface proc     *)
(* macro (bare_function_interface.rs).  `generate` turns a trait           *)
(* definition into a token stream of function items: for every method the  *)
(* bare function (a std forwarder to the latest version and a no_std call  *)
(* of the exchangeable host function) and, for every (version, method),    *)
(* the std-only versioned implementation that calls into the trait.        *)
(*                                                                         *)
(* Token streams are sequences of function items; an item is a record of   *)
(* its cfg gate, attributes, visibility, identifier, inputs, output and    *)
(* block.  Identifiers are strings, built by the same formatting the       *)
(* helpers use.                                                            *)
(***************************************************************************)
EXTENDS Integers, Sequences, FiniteSets, TLC

VARIABLES trait_def, is_wasm_only, pc, runtime_interface, idx, token_stream, result

vars == <<trait_def, is_wasm_only, pc, runtime_interface, idx, token_stream, result>>

(***************************************************************************)
(* Bounds of the explored inputs.                                          *)
(***************************************************************************)
\* at most this many method declarations in a trait
MaxDecls == 3
\* version numbers range over 1..MaxVersion
MaxVersion == 3
\* a method has no typed argument or this many
MaxArgs == 2

\* method identifiers, in the order of the interface's name-keyed map
MethodNames == <<"put", "q">>
\* argument identifiers, in declaration order
ArgNames == <<"k", "v", "w", "x">>

(***************************************************************************)
(* Result<T>                                                               *)
(***************************************************************************)
Ok(v) == [ok |-> TRUE, val |-> v]
Err(e) == [ok |-> FALSE, val |-> e]

(***************************************************************************)
(* The input: syn's ItemTrait / TraitItemMethod / Signature / Attribute.   *)
(***************************************************************************)
Receiver == [kind |-> "Receiver", mutable |-> FALSE, pat |-> "self", ty |-> "&mut Self"]
Typed(name) == [kind |-> "Typed", mutable |-> FALSE, pat |-> name, ty |-> "u32"]

VersionAttr(v) == [path |-> <<"version">>, tokens |-> ToString(v)]
DocAttr == [path |-> <<"doc">>, tokens |-> "x"]
DeprecatedAttr == [path |-> <<"deprecated">>, tokens |-> ""]
QualifiedAttr == [path |-> <<"foo", "version">>, tokens |-> ""]
UnknownAttr == [path |-> <<"my_attr">>, tokens |-> "version"]

\* the attribute lists a declaration of version v may carry
\* ("mixed": a first version is declared without the annotation)
AttrTemplates == {"documented", "mixed"}
Attrs(template, v) ==
    CASE template = "documented" -> <<DocAttr, DeprecatedAttr, VersionAttr(v)>>
      [] template = "mixed" -> (IF v = 1 THEN <<>> ELSE <<VersionAttr(v)>>)
                                  \o <<QualifiedAttr, UnknownAttr>>

\* the shapes of a method: receiver or not, how many typed arguments, which attributes
Shapes == [receiver : BOOLEAN, nargs : {0, MaxArgs}, attrs : AttrTemplates]

TraitItemMethod(name, v, shape) ==
    [attrs |-> Attrs(shape.attrs, v),
     sig |-> [ident |-> name,
              inputs |-> (IF shape.receiver THEN <<Receiver>> ELSE <<>>)
                          \o [i \in 1..shape.nargs |-> Typed(ArgNames[i])],
              output |-> IF shape.receiver THEN "" ELSE "-> u32"]]

\* (name, version) keys in map order: by name, then by version
KeyIndex(p) == <<((p - 1) \div MaxVersion) + 1, ((p - 1) % MaxVersion) + 1>>
NumKeys == Len(MethodNames) * MaxVersion

\* declaration lists: key positions in non-decreasing order (a repeated key is a
\* method declared twice at the same version)
DeclLists ==
    UNION {{ks \in [1..n -> 1..NumKeys] : \A i \in 1..(n - 1) : ks[i] <= ks[i + 1]}
           : n \in 1..MaxDecls}

NamesIn(ks) == {MethodNames[KeyIndex(ks[i])[1]] : i \in 1..Len(ks)}

ItemTrait(ks, shapes) ==
    [ident |-> "I",
     items |-> [i \in 1..Len(ks) |->
                  TraitItemMethod(MethodNames[KeyIndex(ks[i])[1]], KeyIndex(ks[i])[2],
                                  shapes[MethodNames[KeyIndex(ks[i])[1]]])]]

DefaultShape == [receiver |-> FALSE, nargs |-> 0, attrs |-> "mixed"]
NameSet == {MethodNames[i] : i \in 1..Len(MethodNames)}

TraitDefs ==
    {ItemTrait(ks, shapes) :
        <<ks, shapes>> \in
            {p \in DeclLists \X [NameSet -> Shapes] :
                \A n \in NameSet \ NamesIn(p[1]) : p[2][n] = DefaultShape}}

(***************************************************************************)
(* utils.rs and the RuntimeInterface of the trait                          *)
(***************************************************************************)
is_ident(path, s) == Len(path) = 1 /\ path[1] = s

\* the version a declaration is annotated with; 1 without annotation
get_item_version(method) ==
    IF \E i \in 1..Len(method.attrs) : is_ident(method.attrs[i].path, "version")
    THEN LET i == CHOOSE j \in 1..Len(method.attrs) :
                      is_ident(method.attrs[j].path, "version")
             Digit == [s \in {ToString(v) : v \in 1..MaxVersion} |->
                          CHOOSE v \in 1..MaxVersion : ToString(v) = s]
         IN Digit[method.attrs[i].tokens]
    ELSE 1

Max(S) == CHOOSE x \in S : \A y \in S : y <= x

get_runtime_interface(td) ==
    LET n == Len(td.items)
        key(i) == <<td.items[i].sig.ident, get_item_version(td.items[i])>>
        dup == {i \in 1..n : \E j \in 1..(i - 1) : key(j) = key(i)}
        names == {td.items[i].sig.ident : i \in 1..n}
        versionsOf(nm) == {get_item_version(td.items[i]) :
                              i \in {j \in 1..n : td.items[j].sig.ident = nm}}
        methodAt(nm, v) == td.items[CHOOSE i \in 1..n : key(i) = <<nm, v>>]
    IN IF dup # {}
       THEN Err([span |-> CHOOSE i \in dup : \A j \in dup : i <= j,
                 message |-> "Duplicated version attribute"])
       ELSE Ok([items |-> [nm \in names |->
                    [latest_version |-> Max(versionsOf(nm)),
                     versions |-> [v \in versionsOf(nm) |-> methodAt(nm, v)]]]])

\* the names of the interface in map order
ItemNames(ri) == SelectSeq(MethodNames, LAMBDA nm : nm \in DOMAIN ri.items)

latest_versions(ri) ==
    LET ns == ItemNames(ri)
    IN [i \in 1..Len(ns) |->
          <<ri.items[ns[i]].latest_version,
            ri.items[ns[i]].versions[ri.items[ns[i]].latest_version]>>]

all_versions(ri) ==
    LET keys == SelectSeq([p \in 1..NumKeys |-> <<MethodNames[KeyIndex(p)[1]], KeyIndex(p)[2]>>],
                          LAMBDA k : k[1] \in DOMAIN ri.items
                                     /\ k[2] \in DOMAIN ri.items[k[1]].versions)
    IN [i \in 1..Len(keys) |-> <<keys[i][2], ri.items[keys[i][1]].versions[keys[i][2]]>>]

generate_crate_access == "proc_macro_runtime_interface"

create_function_ident_with_version(name, version) ==
    name \o "_version_" \o ToString(version)

create_exchangeable_host_function_ident(name) == "host_" \o name

get_function_arguments(sig) == SelectSeq(sig.inputs, LAMBDA a : a.kind = "Typed")

get_function_argument_names(sig) ==
    LET args == get_function_arguments(sig)
    IN [i \in 1..Len(args) |-> args[i].pat]

(***************************************************************************)
(* bare_function_interface.rs                                              *)
(***************************************************************************)
\* stands for the character U+0060, which a string of this language cannot hold
Backtick == "<backtick>"

\* variant: the filter looks at the last path segment instead of is_ident
filter_attrs_last_segment(attrs) ==
    SelectSeq(attrs, LAMBDA a : a.path[Len(a.path)] # "version")

\* method.attrs.iter().filter(|a| !a.path.is_ident("version"))
filter_attrs(attrs) == SelectSeq(attrs, LAMBDA a : ~is_ident(a.path, "version"))

\* variant: any first argument is taken for a receiver (Some(_) => true)
takes_self_argument_any_first(sig) ==
    IF Len(sig.inputs) > 0 THEN TRUE ELSE FALSE

takes_self_argument(sig) ==
    IF Len(sig.inputs) > 0 /\ sig.inputs[1].kind = "Receiver" THEN TRUE ELSE FALSE

generate_call_to_trait(trait_name, method, version, wasm_only) ==
    LET crate_ == generate_crate_access
        method_name == create_function_ident_with_version(method.sig.ident, version)
        expect_msg == Backtick \o method_name \o Backtick
                          \o " called outside of an Externalities-provided environment."
        arg_names == get_function_argument_names(method.sig)
    IN IF takes_self_argument(method.sig)
       THEN LET instance == IF wasm_only THEN "__function_context__"
                                         ELSE "__externalities__"
                impl_ == [kind |-> "trait_call", trait |-> trait_name,
                          method |-> method_name, instance |-> instance,
                          args |-> arg_names]
            IN IF wasm_only
               THEN impl_
               ELSE [kind |-> "with_externalities", crate |-> crate_,
                     closure_param |-> instance, closure_body |-> impl_,
                     expect |-> expect_msg]
       ELSE LET impl_trait_name ==
                    IF wasm_only THEN crate_ \o "::sp_wasm_interface::FunctionContext"
                                 ELSE crate_ \o "::Externalities"
            IN [kind |-> "qualified_call", self_ty |-> "&mut dyn " \o impl_trait_name,
                trait |-> trait_name, method |-> method_name, args |-> arg_names]

\* variant: the function is named after the method, without the version
function_std_impl_unversioned(trait_name, method, version, wasm_only) ==
    LET crate_ == generate_crate_access
        args == get_function_arguments(method.sig)
                  \o (IF wasm_only
                      THEN <<[kind |-> "Typed", mutable |-> TRUE,
                              pat |-> "__function_context__",
                              ty |-> "&mut dyn " \o crate_
                                        \o "::sp_wasm_interface::FunctionContext"]>>
                      ELSE <<>>)
    IN Ok(<<[cfg |-> "feature = \"std\"", attrs |-> filter_attrs(method.attrs),
             vis |-> "", ident |-> method.sig.ident, inputs |-> args,
             output |-> method.sig.output,
             block |-> [kind |-> "versioned",
                        enter_span |-> create_function_ident_with_version(
                                           method.sig.ident, version),
                        call |-> generate_call_to_trait(trait_name, method, version,
                                                        wasm_only)]]>>)

\* variant: the function context is appended only for a method that takes self
function_std_impl_context_if_self(trait_name, method, version, wasm_only) ==
    LET function_name == create_function_ident_with_version(method.sig.ident, version)
        crate_ == generate_crate_access
        args == get_function_arguments(method.sig)
                  \o (IF wasm_only /\ takes_self_argument(method.sig)
                      THEN <<[kind |-> "Typed", mutable |-> TRUE,
                              pat |-> "__function_context__",
                              ty |-> "&mut dyn " \o crate_
                                        \o "::sp_wasm_interface::FunctionContext"]>>
                      ELSE <<>>)
    IN Ok(<<[cfg |-> "feature = \"std\"", attrs |-> filter_attrs(method.attrs),
             vis |-> "", ident |-> function_name, inputs |-> args,
             output |-> method.sig.output,
             block |-> [kind |-> "versioned", enter_span |-> function_name,
                        call |-> generate_call_to_trait(trait_name, method, version,
                                                        wasm_only)]]>>)

\* variant: the function context is appended whatever is_wasm_only is
function_std_impl_context_always(trait_name, method, version, wasm_only) ==
    LET function_name == create_function_ident_with_version(method.sig.ident, version)
        crate_ == generate_crate_access
        args == get_function_arguments(method.sig)
                  \o <<[kind |-> "Typed", mutable |-> TRUE,
                        pat |-> "__function_context__",
                        ty |-> "&mut dyn " \o crate_
                                  \o "::sp_wasm_interface::FunctionContext"]>>
    IN Ok(<<[cfg |-> "feature = \"std\"", attrs |-> filter_attrs(method.attrs),
             vis |-> "", ident |-> function_name, inputs |-> args,
             output |-> method.sig.output,
             block |-> [kind |-> "versioned", enter_span |-> function_name,
                        call |-> generate_call_to_trait(trait_name, method, version,
                                                        wasm_only)]]>>)

function_std_impl(trait_name, method, version, wasm_only) ==
    LET function_name == create_function_ident_with_version(method.sig.ident, version)
        function_name_str == function_name
        crate_ == generate_crate_access
        args == get_function_arguments(method.sig)
                  \o (IF wasm_only
                      THEN <<[kind |-> "Typed", mutable |-> TRUE,
                              pat |-> "__function_context__",
                              ty |-> "&mut dyn " \o crate_
                                        \o "::sp_wasm_interface::FunctionContext"]>>
                      ELSE <<>>)
        return_value == method.sig.output
        attrs == filter_attrs(method.attrs)
        call_to_trait == generate_call_to_trait(trait_name, method, version, wasm_only)
    IN Ok(<<[cfg |-> "feature = \"std\"", attrs |-> attrs, vis |-> "",
             ident |-> function_name, inputs |-> args, output |-> return_value,
             block |-> [kind |-> "versioned", enter_span |-> function_name_str,
                        call |-> call_to_trait]]>>)

\* variant: the forwarder calls the first version instead of the latest
function_std_latest_impl_first_version(method, latest_version) ==
    Ok(<<[cfg |-> "feature = \"std\"", attrs |-> filter_attrs(method.attrs),
          vis |-> "pub", ident |-> method.sig.ident,
          inputs |-> get_function_arguments(method.sig),
          output |-> method.sig.output,
          block |-> [kind |-> "call",
                     func |-> create_function_ident_with_version(method.sig.ident, 1),
                     args |-> get_function_argument_names(method.sig)]]>>)

function_std_latest_impl(method, latest_version) ==
    LET function_name == method.sig.ident
        args == get_function_arguments(method.sig)
        arg_names == get_function_argument_names(method.sig)
        return_value == method.sig.output
        attrs == filter_attrs(method.attrs)
        latest_function_name ==
            create_function_ident_with_version(method.sig.ident, latest_version)
    IN Ok(<<[cfg |-> "feature = \"std\"", attrs |-> attrs, vis |-> "pub",
             ident |-> function_name, inputs |-> args, output |-> return_value,
             block |-> [kind |-> "call", func |-> latest_function_name,
                        args |-> arg_names]]>>)

\* variant: the host function is called with the names of all inputs, self included
function_no_std_impl_all_inputs(method) ==
    Ok(<<[cfg |-> "not(feature = \"std\")", attrs |-> filter_attrs(method.attrs),
          vis |-> "pub", ident |-> method.sig.ident,
          inputs |-> get_function_arguments(method.sig),
          output |-> method.sig.output,
          block |-> [kind |-> "host_call",
                     handle |-> create_exchangeable_host_function_ident(method.sig.ident),
                     accessor |-> "get",
                     args |-> [i \in 1..Len(method.sig.inputs) |->
                                 method.sig.inputs[i].pat]]]>>)

function_no_std_impl(method) ==
    LET function_name == method.sig.ident
        host_function_name == create_exchangeable_host_function_ident(method.sig.ident)
        args == get_function_arguments(method.sig)
        arg_names == get_function_argument_names(method.sig)
        return_value == method.sig.output
        attrs == filter_attrs(method.attrs)
    IN Ok(<<[cfg |-> "not(feature = \"std\")", attrs |-> attrs, vis |-> "pub",
             ident |-> function_name, inputs |-> args, output |-> return_value,
             block |-> [kind |-> "host_call", handle |-> host_function_name,
                        accessor |-> "get", args |-> arg_names]]>>)

\* variant: the std implementation is emitted for a wasm only interface too
function_for_method_std_always(method, latest_version, wasm_only) ==
    LET std_impl == function_std_latest_impl(method, latest_version)
        no_std_impl == function_no_std_impl(method)
    IN IF ~std_impl.ok THEN std_impl
       ELSE IF ~no_std_impl.ok THEN no_std_impl
       ELSE Ok(std_impl.val \o no_std_impl.val)

\* variant: the no_std implementation is quoted before the std implementation
function_for_method_no_std_first(method, latest_version, wasm_only) ==
    LET std_impl == IF ~wasm_only THEN function_std_latest_impl(method, latest_version)
                                  ELSE Ok(<<>>)
        no_std_impl == function_no_std_impl(method)
    IN IF ~std_impl.ok THEN std_impl
       ELSE IF ~no_std_impl.ok THEN no_std_impl
       ELSE Ok(no_std_impl.val \o std_impl.val)

function_for_method(method, latest_version, wasm_only) ==
    LET std_impl == IF ~wasm_only THEN function_std_latest_impl(method, latest_version)
                                  ELSE Ok(<<>>)
    IN IF ~std_impl.ok
       THEN std_impl
       ELSE LET no_std_impl == function_no_std_impl(method)
            IN IF ~no_std_impl.ok
               THEN no_std_impl
               ELSE Ok(std_impl.val \o no_std_impl.val)

\* the closure of the first try_fold: |mut t, (latest_version, method)|
latest_version_dispatch(t, entry, wasm_only) ==
    LET r == function_for_method(entry[2], entry[1], wasm_only)
    IN IF r.ok THEN Ok(t \o r.val) ELSE r

\* the closure of the second try_fold: |mut t, (version, method)|
earlier_versions_dispatch(trait_name, t, entry, wasm_only) ==
    LET r == function_std_impl(trait_name, entry[2], entry[1], wasm_only)
    IN IF r.ok THEN Ok(t \o r.val) ELSE r

(***************************************************************************)
(* generate(trait_def, is_wasm_only), one step per fold iteration          *)
(***************************************************************************)
NoInterface == [items |-> <<>>]
Pending == [ok |-> FALSE, val |-> [span |-> 0, message |-> "pending"]]

Init ==
    /\ trait_def \in TraitDefs
    /\ is_wasm_only \in BOOLEAN
    /\ pc = "generate"
    /\ runtime_interface = NoInterface
    /\ idx = 0
    /\ token_stream = Ok(<<>>)
    /\ result = Pending

\* variant: a rejected trait is treated as an interface without methods
\* (unwrap_or_default in place of ?)
GetRuntimeInterface_or_default ==
    /\ pc = "generate"
    /\ LET r == get_runtime_interface(trait_def)
       IN /\ runtime_interface' = IF r.ok THEN r.val ELSE [items |-> <<>>]
          /\ pc' = "latest_versions"
          /\ idx' = 1
          /\ token_stream' = [ok |-> TRUE, val |-> <<>>]
          /\ UNCHANGED result
    /\ UNCHANGED <<trait_def, is_wasm_only>>

\* let runtime_interface = get_runtime_interface(trait_def)?;
GetRuntimeInterface ==
    /\ pc = "generate"
    /\ LET r == get_runtime_interface(trait_def)
       IN IF r.ok
          THEN /\ runtime_interface' = r.val
               /\ pc' = "latest_versions"
               /\ idx' = 1
               /\ token_stream' = Ok(<<>>)
               /\ UNCHANGED result
          ELSE /\ result' = r
               /\ pc' = "done"
               /\ UNCHANGED <<runtime_interface, idx, token_stream>>
    /\ UNCHANGED <<trait_def, is_wasm_only>>

\* one iteration of runtime_interface.latest_versions().try_fold(...)
LatestVersionDispatch ==
    /\ pc = "latest_versions"
    /\ token_stream.ok
    /\ idx <= Len(latest_versions(runtime_interface))
    /\ token_stream' = latest_version_dispatch(token_stream.val,
                            latest_versions(runtime_interface)[idx], is_wasm_only)
    /\ idx' = idx + 1
    /\ UNCHANGED <<trait_def, is_wasm_only, pc, runtime_interface, result>>

\* the first fold is over (or broke off): token_stream? seeds the second fold
TryTokenStream ==
    /\ pc = "latest_versions"
    /\ ~token_stream.ok \/ idx > Len(latest_versions(runtime_interface))
    /\ IF token_stream.ok
       THEN /\ pc' = "all_versions"
            /\ idx' = 1
            /\ UNCHANGED result
       ELSE /\ result' = token_stream
            /\ pc' = "done"
            /\ UNCHANGED idx
    /\ UNCHANGED <<trait_def, is_wasm_only, runtime_interface, token_stream>>

\* one iteration of runtime_interface.all_versions().try_fold(...)
EarlierVersionsDispatch ==
    /\ pc = "all_versions"
    /\ token_stream.ok
    /\ idx <= Len(all_versions(runtime_interface))
    /\ token_stream' = earlier_versions_dispatch(trait_def.ident, token_stream.val,
                            all_versions(runtime_interface)[idx], is_wasm_only)
    /\ idx' = idx + 1
    /\ UNCHANGED <<trait_def, is_wasm_only, pc, runtime_interface, result>>

\* result
Return ==
    /\ pc = "all_versions"
    /\ ~token_stream.ok \/ idx > Len(all_versions(runtime_interface))
    /\ result' = token_stream
    /\ pc' = "done"
    /\ UNCHANGED <<trait_def, is_wasm_only, runtime_interface, idx, token_stream>>

Next ==
    \/ GetRuntimeInterface
    \/ LatestVersionDispatch
    \/ TryTokenStream
    \/ EarlierVersionsDispatch
    \/ Return

Spec == Init /\ [][Next]_vars

(***************************************************************************)
(* Properties of the output                                                *)
(***************************************************************************)
Std == "feature = \"std\""
NotStd == "not(feature = \"std\")"

\* generate has returned Ok(stream)
Done == pc = "done" /\ result.ok
Out == result.val
LV == latest_versions(runtime_interface)
AV == all_versions(runtime_interface)

\* the positions of the stream that hold a function with the given gate, visibility, name
Positions(cfg, vis, ident) ==
    {p \in 1..Len(Out) : Out[p].cfg = cfg /\ Out[p].vis = vis /\ Out[p].ident = ident}

VersionedName(entry) == entry[2].sig.ident \o "_version_" \o ToString(entry[1])
DeclaredArgs(method) == SelectSeq(method.sig.inputs, LAMBDA a : a.kind # "Receiver")
DeclaredArgNames(method) ==
    [i \in 1..Len(DeclaredArgs(method)) |-> DeclaredArgs(method)[i].pat]
WithoutVersion(attrs) == SelectSeq(attrs, LAMBDA a : a.path # <<"version">>)
HasReceiver(method) ==
    Len(method.sig.inputs) > 0 /\ method.sig.inputs[1].kind = "Receiver"
HasContextParam(f) ==
    Len(f.inputs) > 0 /\ f.inputs[Len(f.inputs)].pat = "__function_context__"
\* the versions the trait declares for a method name, read off the declarations
DeclaredVersions(name) ==
    {get_item_version(trait_def.items[i]) :
        i \in {j \in 1..Len(trait_def.items) : trait_def.items[j].sig.ident = name}}

\* C1: for every method M of latest_versions() the output holds exactly one public
\* guest-gated function named M whatever wasm_only is, and exactly one public
\* host-gated function named M iff wasm_only is false; with wasm_only no public
\* host-gated function is emitted at all.
C1_BareFunctionsPerMethod ==
    Done =>
        /\ \A i \in 1..Len(LV) :
              /\ Cardinality(Positions(NotStd, "pub", LV[i][2].sig.ident)) = 1
              /\ Cardinality(Positions(Std, "pub", LV[i][2].sig.ident))
                    = IF is_wasm_only THEN 0 ELSE 1
        /\ is_wasm_only =>
              \A p \in 1..Len(Out) : ~(Out[p].cfg = Std /\ Out[p].vis = "pub")

C1_Witness ==
    Done /\ is_wasm_only /\ Len(LV) = 2 /\ Len(AV) = 3

\* C2: for both values of wasm_only the host-gated non-public functions of the
\* output are exactly the versioned names of the pairs of all_versions(), each
\* emitted once; a version that is not declared gets no function.
C2_VersionedFunctionsExact ==
    Done =>
        /\ {Out[p].ident : p \in {q \in 1..Len(Out) : Out[q].cfg = Std /\ Out[q].vis = ""}}
              = {VersionedName(AV[j]) : j \in 1..Len(AV)}
        /\ \A j \in 1..Len(AV) : Cardinality(Positions(Std, "", VersionedName(AV[j]))) = 1
        /\ \A p \in 1..Len(Out) : Out[p].vis = "" => Out[p].cfg = Std
        /\ \A nm \in DOMAIN runtime_interface.items : \A v \in 1..MaxVersion :
              v \notin DeclaredVersions(nm) =>
                  Positions(Std, "", nm \o "_version_" \o ToString(v)) = {}

C2_Witness ==
    /\ Done
    /\ "q" \in DOMAIN runtime_interface.items
    /\ DeclaredVersions("q") = {1, 3}
    /\ Positions(Std, "", "q_version_1") # {}
    /\ Positions(Std, "", "q_version_3") # {}
    /\ Positions(Std, "", "q_version_2") = {}

\* C3 as claimed: a versioned host implementation has the trailing function-context
\* parameter iff wasm_only is true AND the method takes a receiver; otherwise its
\* parameters are exactly the declared arguments.
C3_ContextParamIffWasmOnlyAndReceiver ==
    Done =>
        \A j \in 1..Len(AV) : \A p \in Positions(Std, "", VersionedName(AV[j])) :
            /\ HasContextParam(Out[p]) <=> (is_wasm_only /\ HasReceiver(AV[j][2]))
            /\ ~(is_wasm_only /\ HasReceiver(AV[j][2])) =>
                  Out[p].inputs = DeclaredArgs(AV[j][2])

\* C3 amended: a versioned host implementation has the trailing function-context
\* parameter iff wasm_only is true, whether or not the method takes a receiver;
\* the parameters before it are exactly the declared arguments, and without
\* wasm_only the parameters are exactly the declared arguments.
C3_ContextParamIffWasmOnly ==
    Done =>
        \A j \in 1..Len(AV) :
            /\ Positions(Std, "", VersionedName(AV[j])) # {}
            /\ \A p \in Positions(Std, "", VersionedName(AV[j])) :
                  /\ HasContextParam(Out[p]) <=> is_wasm_only
                  /\ Len(Out[p].inputs)
                        = Len(DeclaredArgs(AV[j][2])) + (IF is_wasm_only THEN 1 ELSE 0)
                  /\ SubSeq(Out[p].inputs, 1, Len(DeclaredArgs(AV[j][2])))
                        = DeclaredArgs(AV[j][2])

C3_Witness ==
    /\ Done /\ is_wasm_only
    /\ \E j \in 1..Len(AV) :
          /\ ~HasReceiver(AV[j][2])
          /\ Len(DeclaredArgs(AV[j][2])) = MaxArgs
          /\ \E p \in Positions(Std, "", VersionedName(AV[j])) : HasContextParam(Out[p])

\* the cell of the dispatch table for a method, a version and wasm_only
TableDispatch(trait, method, v, wasm_only) ==
    LET name == method.sig.ident \o "_version_" \o ToString(v)
        args == DeclaredArgNames(method)
    IN CASE HasReceiver(method) /\ ~wasm_only ->
              [kind |-> "with_externalities", crate |-> generate_crate_access,
               closure_param |-> "__externalities__",
               closure_body |-> [kind |-> "trait_call", trait |-> trait, method |-> name,
                                 instance |-> "__externalities__", args |-> args],
               expect |-> Backtick \o name \o Backtick
                   \o " called outside of an Externalities-provided environment."]
         [] HasReceiver(method) /\ wasm_only ->
              [kind |-> "trait_call", trait |-> trait, method |-> name,
               instance |-> "__function_context__", args |-> args]
         [] ~HasReceiver(method) /\ ~wasm_only ->
              [kind |-> "qualified_call",
               self_ty |-> "&mut dyn " \o generate_crate_access \o "::Externalities",
               trait |-> trait, method |-> name, args |-> args]
         [] ~HasReceiver(method) /\ wasm_only ->
              [kind |-> "qualified_call",
               self_ty |-> "&mut dyn " \o generate_crate_access
                              \o "::sp_wasm_interface::FunctionContext",
               trait |-> trait, method |-> name, args |-> args]

\* C4: the body of every versioned host implementation dispatches as the 4-cell
\* table of (receiver, wasm_only) says, with the declared argument names in order;
\* in the receiver and wasm_only cell the instance is the trailing injected parameter.
C4_DispatchTable ==
    Done =>
        \A j \in 1..Len(AV) :
            /\ Positions(Std, "", VersionedName(AV[j])) # {}
            /\ \A p \in Positions(Std, "", VersionedName(AV[j])) :
                  /\ Out[p].block.kind = "versioned"
                  /\ Out[p].block.call
                        = TableDispatch(trait_def.ident, AV[j][2], AV[j][1], is_wasm_only)
                  /\ (is_wasm_only /\ HasReceiver(AV[j][2])) =>
                        Out[p].inputs[Len(Out[p].inputs)].pat = Out[p].block.call.instance

C4_Witness ==
    /\ Done /\ ~is_wasm_only
    /\ \E j \in 1..Len(AV) :
          /\ HasReceiver(AV[j][2]) /\ Len(DeclaredArgs(AV[j][2])) = MaxArgs
          /\ \E p \in Positions(Std, "", VersionedName(AV[j])) :
                Out[p].block.call.kind = "with_externalities"
    /\ \E j \in 1..Len(AV) :
          /\ ~HasReceiver(AV[j][2]) /\ Len(DeclaredArgs(AV[j][2])) = MaxArgs
          /\ \E p \in Positions(Std, "", VersionedName(AV[j])) :
                Out[p].block.call.kind = "qualified_call"

\* C5: without wasm_only the host-gated bare function of a method M is a single call
\* of versioned_name(M, L), L the greatest version declared for M (gaps and several
\* versions included), with the declared argument names in order.
C5_ForwarderTargetsLatest ==
    (Done /\ ~is_wasm_only) =>
        \A i \in 1..Len(LV) :
            LET M == LV[i][2].sig.ident
                L == Max(DeclaredVersions(M))
            IN /\ Positions(Std, "pub", M) # {}
               /\ \A p \in Positions(Std, "pub", M) :
                     Out[p].block = [kind |-> "call",
                                     func |-> M \o "_version_" \o ToString(L),
                                     args |-> DeclaredArgNames(LV[i][2])]

C5_Witness ==
    /\ Done /\ ~is_wasm_only
    /\ \E i \in 1..Len(LV) :
          /\ Cardinality(DeclaredVersions(LV[i][2].sig.ident)) >= 2
          /\ Len(DeclaredArgs(LV[i][2])) = MaxArgs
          /\ HasReceiver(LV[i][2])
          /\ \E p \in Positions(Std, "pub", LV[i][2].sig.ident) :
                Out[p].block.func
                    = LV[i][2].sig.ident \o "_version_"
                        \o ToString(Max(DeclaredVersions(LV[i][2].sig.ident)))

\* C6: every emitted function (host forwarder, guest function, versioned host
\* implementation) carries its method's attributes without those whose path is the
\* identifier `version`, the others in their order; none carries `version`.
C6_AttributesWithoutVersion ==
    Done =>
        /\ \A i \in 1..Len(LV) : \A p \in 1..Len(Out) :
              (Out[p].vis = "pub" /\ Out[p].ident = LV[i][2].sig.ident) =>
                  Out[p].attrs = WithoutVersion(LV[i][2].attrs)
        /\ \A j \in 1..Len(AV) : \A p \in 1..Len(Out) :
              (Out[p].vis = "" /\ Out[p].ident = VersionedName(AV[j])) =>
                  Out[p].attrs = WithoutVersion(AV[j][2].attrs)
        /\ \A p \in 1..Len(Out) :
              /\ \A a \in 1..Len(Out[p].attrs) : Out[p].attrs[a].path # <<"version">>
              /\ \/ \E i \in 1..Len(LV) :
                        Out[p].vis = "pub" /\ Out[p].ident = LV[i][2].sig.ident
                 \/ \E j \in 1..Len(AV) :
                        Out[p].vis = "" /\ Out[p].ident = VersionedName(AV[j])

C6_Witness ==
    /\ Done
    /\ \E j \in 1..Len(AV) :
          /\ AV[j][2].attrs = <<DocAttr, DeprecatedAttr, VersionAttr(2)>>
          /\ \E p \in Positions(Std, "", VersionedName(AV[j])) :
                Out[p].attrs = <<DocAttr, DeprecatedAttr>>
    /\ \E j \in 1..Len(AV) : \E p \in Positions(Std, "", VersionedName(AV[j])) :
          Out[p].attrs = <<QualifiedAttr, UnknownAttr>>

\* C7: the guest-gated bare function of a method M gets the handle host_M through
\* get and calls it with the declared argument names in order; the function is
\* determined by the method alone, so it is the same for both values of wasm_only
\* and for every version.
C7_GuestCallsHostFunction ==
    Done =>
        \A i \in 1..Len(LV) :
            /\ Positions(NotStd, "pub", LV[i][2].sig.ident) # {}
            /\ \A p \in Positions(NotStd, "pub", LV[i][2].sig.ident) :
                  Out[p] = [cfg |-> NotStd,
                            attrs |-> WithoutVersion(LV[i][2].attrs),
                            vis |-> "pub",
                            ident |-> LV[i][2].sig.ident,
                            inputs |-> DeclaredArgs(LV[i][2]),
                            output |-> LV[i][2].sig.output,
                            block |-> [kind |-> "host_call",
                                       handle |-> "host_" \o LV[i][2].sig.ident,
                                       accessor |-> "get",
                                       args |-> DeclaredArgNames(LV[i][2])]]

C7_Witness ==
    /\ Done /\ is_wasm_only
    /\ \E i \in 1..Len(LV) :
          /\ LV[i][1] > 1 /\ HasReceiver(LV[i][2])
          /\ \E p \in Positions(NotStd, "pub", LV[i][2].sig.ident) :
                /\ Out[p].block.handle = "host_" \o LV[i][2].sig.ident
                /\ Len(Out[p].block.args) = MaxArgs

\* C8: in the output every bare function precedes every versioned host
\* implementation; the bare functions follow latest_versions(), the host forwarder
\* (when emitted) right before its method's guest function; the versioned host
\* implementations follow all_versions().
C8_OutputOrder ==
    Done =>
        LET w == IF is_wasm_only THEN 1 ELSE 2
            n == Len(LV)
        IN /\ Len(Out) = w * n + Len(AV)
           /\ \A i \in 1..n :
                 /\ Out[w * i].cfg = NotStd /\ Out[w * i].vis = "pub"
                 /\ Out[w * i].ident = LV[i][2].sig.ident
                 /\ ~is_wasm_only =>
                       /\ Out[2 * i - 1].cfg = Std /\ Out[2 * i - 1].vis = "pub"
                       /\ Out[2 * i - 1].ident = LV[i][2].sig.ident
           /\ \A j \in 1..Len(AV) :
                 /\ Out[w * n + j].cfg = Std /\ Out[w * n + j].vis = ""
                 /\ Out[w * n + j].ident = VersionedName(AV[j])

C8_Witness ==
    Done /\ ~is_wasm_only /\ Len(LV) = 2 /\ Len(AV) = 3 /\ Len(Out) = 7

\* C9: generate returns a complete stream or an error, never a partial stream: when
\* get_runtime_interface rejects the trait, generate returns that error unchanged
\* and no emitter has run; otherwise it returns the stream of all emitted functions.
\* Nothing is returned before generate ends.
C9_CompleteStreamOrError ==
    /\ pc # "done" => result = Pending
    /\ pc = "done" =>
          LET r == get_runtime_interface(trait_def)
          IN IF r.ok
             THEN /\ result.ok
                  /\ Len(result.val)
                        = (IF is_wasm_only THEN 1 ELSE 2) * Len(latest_versions(r.val))
                            + Len(all_versions(r.val))
             ELSE /\ result = [ok |-> FALSE, val |-> r.val]
                  /\ token_stream = [ok |-> TRUE, val |-> <<>>]
                  /\ idx = 0
                  /\ runtime_interface = NoInterface

C9_Witness ==
    /\ pc = "done" /\ ~result.ok
    /\ result.val.message = "Duplicated version attribute"
    /\ Len(trait_def.items) = MaxDecls

\* C10: every call an emitted host forwarder makes resolves within the output: its
\* callee is the name of exactly one host-gated versioned implementation, which
\* takes as many parameters as the forwarder passes arguments and has no trailing
\* function-context parameter.
C10_ForwarderCallResolves ==
    Done =>
        \A p \in 1..Len(Out) :
            Out[p].block.kind = "call" =>
                /\ Cardinality(Positions(Std, "", Out[p].block.func)) = 1
                /\ \A q \in Positions(Std, "", Out[p].block.func) :
                      /\ Len(Out[q].inputs) = Len(Out[p].block.args)
                      /\ ~HasContextParam(Out[q])

C10_Witness ==
    /\ Done
    /\ \E p \in 1..Len(Out) :
          /\ Out[p].block.kind = "call"
          /\ Len(Out[p].block.args) = MaxArgs
          /\ \E q \in Positions(Std, "", Out[p].block.func) :
                Len(Out[q].inputs) = MaxArgs
    /\ Len(AV) > Len(LV)

====
